---- MODULE Spec2Model ----
(***************************************************************************)
(* A model of mcp_image_tools (server.py, utils.py).                       *)
(*                                                                         *)
(* The specifications of this module:                                      *)
(*   SpecKey   the per-pixel keying loop of chromakey_to_transparent;      *)
(*   SpecHex   the parsing of its key_color argument;                      *)
(*   Spec      the tool calls of one caller as steps on a file system;     *)
(*   SpecConc  the same steps of two callers, interleaved.                 *)
(***************************************************************************)
EXTENDS Integers, Sequences, FiniteSets, TLC

(***************************************************************************)
(* Bounds of the model.                                                    *)
(***************************************************************************)
\* an image of the keying specification has at most this many pixels
MaxPixels == 2

(***************************************************************************)
(* Keying loop: state.                                                     *)
(***************************************************************************)
VARIABLES
    kpc,                \* position in chromakey_to_transparent's pixel loop
    width, height,      \* img.width, img.height
    pixels,             \* img.load(): [<<x, y>> -> <<r, g, b, a>>]
    pixels0,            \* the pixel buffer as decoded, before the loop (history)
    key_rgb,            \* parse_hex_color(key_color)
    tolerance,          \* the tolerance argument
    x, y,               \* the loop counters
    pixels_processed,
    pixels_transparent,
    kresult             \* the counters as reported in the response

kvars == <<kpc, width, height, pixels, pixels0, key_rgb, tolerance, x, y,
           pixels_processed, pixels_transparent, kresult>>

(***************************************************************************)
(* utils.color_distance returns math.sqrt of an integer sum of squares.    *)
(* The model keeps that real number as the integer under the root: the     *)
(* record [sq |-> n] stands for sqrt(n).  For 8-bit channels and integer   *)
(* tolerances the double-precision results of the comparisons and of the   *)
(* truncation below equal the exact real ones (the nearest a quotient      *)
(* 255*(d - t)/(2t) with irrational d comes to an integer is above 1e-8).  *)
(***************************************************************************)
Sq(n) == n * n

color_distance(c1, c2) ==
    [sq |-> Sq(c1[1] - c2[1]) + Sq(c1[2] - c2[2]) + Sq(c1[3] - c2[3])]

\* distance < n, for a distance sqrt(d.sq) and an integer n
DistLess(d, n) == n > 0 /\ d.sq < n * n

\* floor(sqrt(n)) for 0 <= n <= 3 * 255^2
ISqrt(n) == CHOOSE s \in 0..442 : s * s <= n /\ n < (s + 1) * (s + 1)

\* floor(255 * sqrt(n)), without leaving 32 bits:
\* (255 s + e)^2 <= 65025 n  <=>  510 s e + e^2 <= 65025 (n - s^2)
Floor255Sqrt(n) ==
    LET s == ISqrt(n)
        rem == n - s * s
    IN  255 * s + (CHOOSE e \in 0..254 :
                      /\ 510 * s * e + e * e <= 65025 * rem
                      /\ 510 * s * (e + 1) + (e + 1) * (e + 1) > 65025 * rem)

\* Python's int() of the quotient num / den: truncation toward zero
IntTrunc(num, den) ==
    IF (num >= 0) = (den > 0)
    THEN (IF num >= 0 THEN num ELSE -num) \div (IF den > 0 THEN den ELSE -den)
    ELSE -((IF num >= 0 THEN num ELSE -num) \div (IF den > 0 THEN den ELSE -den))

Min(a, b) == IF a <= b THEN a ELSE b

\* alpha = int(255 * (distance - tolerance) / (tolerance * 2))
\* floor((255 d - 255 t) / 2t) = floor((floor(255 d) - 255 t) / 2t), as 2t and
\* 255 t are integers
GraduatedAlphaInverted(d, tol) ==
    IntTrunc(255 * (3 * tol) - Floor255Sqrt(d.sq), tol * 2)

GraduatedAlpha(d, tol) ==
    IntTrunc(Floor255Sqrt(d.sq) - 255 * tol, tol * 2)

\* which branch of the if / elif the loop body takes for a pixel
ZoneInclusive(d, tol) ==
    IF d.sq <= tol * tol /\ tol >= 0 THEN "transparent"
    ELSE IF DistLess(d, tol * 3) THEN "graduated"
    ELSE "untouched"

ZoneNarrowRamp(d, tol) ==
    IF DistLess(d, tol) THEN "transparent"
    ELSE IF DistLess(d, tol * 2) THEN "graduated"
    ELSE "untouched"

Zone(d, tol) ==
    IF DistLess(d, tol) THEN "transparent"
    ELSE IF DistLess(d, tol * 3) THEN "graduated"
    ELSE "untouched"

\* the value the loop body leaves in pixels[x, y]
KeyedPixel(p, key, tol) ==
    LET distance == color_distance(<<p[1], p[2], p[3]>>, key)
        zone == Zone(distance, tol)
    IN  IF zone = "transparent" THEN <<p[1], p[2], p[3], 0>>
        ELSE IF zone = "graduated"
             THEN <<p[1], p[2], p[3], Min(255, GraduatedAlpha(distance, tol))>>
        ELSE p

\* whether the loop body adds one to pixels_transparent for a pixel
CountsAnyZeroAlpha(p, key, tol) == KeyedPixel(p, key, tol)[4] = 0

CountsTransparent(p, key, tol) ==
    Zone(color_distance(<<p[1], p[2], p[3]>>, key), tol) = "transparent"

(***************************************************************************)
(* Keying loop: inputs.                                                    *)
(***************************************************************************)
KeyColors == { <<0, 255, 0>>, <<200, 30, 90>> }

Tolerances == { 0, 1, 70 }

\* colours on and around the zone borders of the tolerances above, seen from
\* the first key colour, and some off the axes
SampleColors ==
    { <<r, 255, 0>> : r \in {0, 1, 2, 3, 69, 70, 71, 140, 209, 210} }
    \cup { <<200, 30, 90>>, <<200, 31, 90>>, <<50, 205, 50>>, <<100, 155, 100>>,
           <<255, 255, 255>>, <<0, 0, 0>> }

SamplePixels ==
    { <<c[1], c[2], c[3], 255>> : c \in SampleColors }
    \cup { <<0, 255, 0, 128>>, <<71, 255, 0, 0>>, <<255, 255, 255, 128>> }

Shapes == { wh \in (1..MaxPixels) \X (1..MaxPixels) : wh[1] * wh[2] <= MaxPixels }

Coords(w, h) == (0..(w - 1)) \X (0..(h - 1))

(***************************************************************************)
(* Keying loop: actions (server.py, chromakey_to_transparent).             *)
(***************************************************************************)
\* the image is decoded and converted to RGBA; the loop is about to start
KeyInitState ==
    /\ kpc = "loop"
    /\ \E wh \in Shapes :
          /\ width = wh[1]
          /\ height = wh[2]
          /\ pixels \in [Coords(wh[1], wh[2]) -> SamplePixels]
    /\ pixels0 = pixels
    /\ key_rgb \in KeyColors
    /\ tolerance \in Tolerances
    /\ x = 0
    /\ y = 0
    /\ pixels_processed = 0
    /\ pixels_transparent = 0
    /\ kresult = [pixels_processed |-> -1, pixels_made_transparent |-> -1]

\* no keying call is running (the file-system specification)
KeyIdleState ==
    /\ kpc = "idle"
    /\ width = 1
    /\ height = 1
    /\ pixels = [c \in Coords(1, 1) |-> <<0, 0, 0, 255>>]
    /\ pixels0 = pixels
    /\ key_rgb = <<0, 255, 0>>
    /\ tolerance = 70
    /\ x = 0
    /\ y = 0
    /\ pixels_processed = 0
    /\ pixels_transparent = 0
    /\ kresult = [pixels_processed |-> -1, pixels_made_transparent |-> -1]

\* one iteration of the inner loop: for y in range(height): for x in range(width)
KeyPixel ==
    /\ kpc = "loop"
    /\ y < height
    /\ LET p == pixels[<<x, y>>]
       IN  /\ pixels' = [pixels EXCEPT ![<<x, y>>] = KeyedPixel(p, key_rgb, tolerance)]
           /\ pixels_transparent' =
                 IF CountsTransparent(p, key_rgb, tolerance)
                 THEN pixels_transparent + 1
                 ELSE pixels_transparent
    /\ pixels_processed' = pixels_processed + 1
    /\ IF x + 1 < width
       THEN x' = x + 1 /\ y' = y
       ELSE x' = 0 /\ y' = y + 1
    /\ UNCHANGED <<kpc, width, height, pixels0, key_rgb, tolerance, kresult>>

\* the loop is over: the counters go into the response
KeyReport ==
    /\ kpc = "loop"
    /\ y >= height
    /\ kpc' = "done"
    /\ kresult' = [pixels_processed |-> pixels_processed,
                   pixels_made_transparent |-> pixels_transparent]
    /\ UNCHANGED <<width, height, pixels, pixels0, key_rgb, tolerance, x, y,
                   pixels_processed, pixels_transparent>>

(***************************************************************************)
(* utils.parse_hex_color.  A str is a sequence of one-character strings.   *)
(***************************************************************************)
VARIABLES
    hpc,                \* position in the first lines of chromakey_to_transparent
    hex_color,          \* the key_color argument
    hparsed,            \* what parse_hex_color did: a value or a ValueError
    hresponse           \* the error the tool returns, "" while it has not

hvars == <<hpc, hex_color, hparsed, hresponse>>

\* key_color strings start with at most this many '#'
MaxHashes == 2

HexDigitChars == <<"0", "1", "2", "3", "4", "5", "6", "7", "8", "9",
                   "a", "b", "c", "d", "e", "f">>

UpperHexChars == <<"A", "B", "C", "D", "E", "F">>

IsHexDigit(c) ==
    \/ \E k \in 1..16 : HexDigitChars[k] = c
    \/ \E k \in 1..6 : UpperHexChars[k] = c

\* the value int() gives a digit in base 16
DigitValue(c) ==
    IF \E k \in 1..16 : HexDigitChars[k] = c
    THEN (CHOOSE k \in 1..16 : HexDigitChars[k] = c) - 1
    ELSE (CHOOSE k \in 1..6 : UpperHexChars[k] = c) + 9

IsSpace(c) == c \in {" ", "\t", "\n", "\r"}

NoInt == [ok |-> FALSE, value |-> 0]

\* int(s, 16) of a slice hex_color[i:i+2] of two characters: int() strips white
\* space and takes a sign, so one digit beside a blank or behind a sign is a
\* number; two characters leave no room for a "0x" prefix or an underscore
\* with digits on both sides
IntBase16(s) ==
    IF IsHexDigit(s[1]) /\ IsHexDigit(s[2])
    THEN [ok |-> TRUE, value |-> 16 * DigitValue(s[1]) + DigitValue(s[2])]
    ELSE IF s[1] = "+" /\ IsHexDigit(s[2])
    THEN [ok |-> TRUE, value |-> DigitValue(s[2])]
    ELSE IF s[1] = "-" /\ IsHexDigit(s[2])
    THEN [ok |-> TRUE, value |-> 0 - DigitValue(s[2])]
    ELSE IF IsSpace(s[1]) /\ IsHexDigit(s[2])
    THEN [ok |-> TRUE, value |-> DigitValue(s[2])]
    ELSE IF IsHexDigit(s[1]) /\ IsSpace(s[2])
    THEN [ok |-> TRUE, value |-> DigitValue(s[1])]
    ELSE NoInt

\* str.lstrip(ch): every leading ch is dropped
RECURSIVE lstrip(_, _)
lstrip(s, ch) ==
    IF s # <<>> /\ Head(s) = ch THEN lstrip(Tail(s), ch) ELSE s

HexValueError == [raised |-> TRUE, rgb |-> <<>>]

\* parse_hex_color(hex_color): the tuple, or the ValueError of line 20 or of int()
parse_hex_color(str) ==
    LET h == lstrip(str, "#")
        r == IntBase16(SubSeq(h, 1, 2))
        g == IntBase16(SubSeq(h, 3, 4))
        b == IntBase16(SubSeq(h, 5, 6))
    IN  IF Len(h) # 6
        THEN HexValueError
        ELSE IF r.ok /\ g.ok /\ b.ok
        THEN [raised |-> FALSE, rgb |-> <<r.value, g.value, b.value>>]
        ELSE HexValueError

\* the two-character pieces the key_color strings are made of
PairSamples ==
    { <<"0", "0">>, <<"F", "F">>, <<"7", "f">>, <<"a", "B">>,
      <<"+", "1">>, <<"-", "1">>, <<" ", "1">>, <<"1", " ">>,
      <<"0", "x">>, <<"g", "0">>, <<"_", "1">>, <<"0", "#">> }

RECURSIVE Hashes(_)
Hashes(n) == IF n = 0 THEN <<>> ELSE <<"#">> \o Hashes(n - 1)

\* key_color strings: some '#', then two or three pieces, then one more
\* character or none
HexInputs ==
    { Hashes(n) \o body \o rest :
        n \in 0..MaxHashes,
        body \in { p \o q \o r : p, q, r \in PairSamples }
                 \cup { p \o q : p, q \in PairSamples },
        rest \in { <<>>, <<"0">> } }

\* no chromakey call is parsing a color
HexIdleState ==
    /\ hpc = "idle"
    /\ hex_color = <<>>
    /\ hparsed = HexValueError
    /\ hresponse = ""

\* chromakey_to_transparent was called with valid paths of an existing input
HexCallState ==
    /\ hpc = "parse"
    /\ hex_color \in HexInputs
    /\ hparsed = HexValueError
    /\ hresponse = ""

\* key_rgb = parse_hex_color(key_color), inside the try
HexParse ==
    /\ hpc = "parse"
    /\ hparsed' = parse_hex_color(hex_color)
    /\ hpc' = "parsed"
    /\ UNCHANGED <<hex_color, hresponse>>

\* except ValueError as e: return json.dumps({"error": str(e)}); otherwise the
\* tool goes on to PILImage.open
HexReport ==
    /\ hpc = "parsed"
    /\ IF hparsed.raised
       THEN hpc' = "returned" /\ hresponse' = "Invalid hex color"
       ELSE hpc' = "open" /\ hresponse' = ""
    /\ UNCHANGED <<hex_color, hparsed>>

(***************************************************************************)
(* Tool calls on a file system: state.                                     *)
(***************************************************************************)
VARIABLES
    dirs,               \* the directories that exist
    dirent,             \* [path -> inode]: the files that exist
    data,               \* [inode -> content]: a content is a sequence of chunks
    proc,               \* [process -> the locals of its tool call]
    ncalls,             \* tool calls started so far
    pngquant_installed  \* shutil.which("pngquant") is not None

fsvars == <<dirs, dirent, data, proc, ncalls, pngquant_installed>>

vars == <<kvars, fsvars, hvars>>

\* tool calls started in one behaviour
MaxCalls == 2

\* write() calls it takes to write one encoded image
ImgChunks == 2

Procs == {1, 2}

(***************************************************************************)
(* Paths.  A pathlib.Path is modelled by what the code asks of it:         *)
(* is_absolute(), parent, suffix, and its identity.                        *)
(***************************************************************************)
AbsPath(dir, name, ext) == [abs |-> TRUE, dir |-> dir, name |-> name, ext |-> ext]

NoPath == [abs |-> FALSE, dir |-> "", name |-> "", ext |-> ""]

RelPath == [abs |-> FALSE, dir |-> "relative", name |-> "input", ext |-> ".png"]

FileA == AbsPath("/d", "a", ".png")     \* an image
LinkA == AbsPath("/d", "l", ".png")     \* a symbolic link to FileA
FileB == AbsPath("/d", "b", ".png")     \* another image
FileJunk == AbsPath("/d", "junk", ".png")   \* a file no codec can decode
FileM == AbsPath("/d", "m", ".png")     \* does not exist
FileN == AbsPath("/n", "c", ".png")     \* its directory does not exist
FileT == AbsPath("/n", "o", ".txt")     \* the same, and no image extension
LinkLoop == AbsPath("/d", "loop", ".png")   \* a symbolic link to itself
FileH == AbsPath("/d", "h", ".png")     \* a hard link: another name of FileB's file

Symlinks == (LinkA :> FileA) @@ (LinkLoop :> LinkLoop)

\* following the links from p never ends
SymlinkLoop(p) == p \in DOMAIN Symlinks /\ Symlinks[p] = p

TempNames == {"tmp1", "tmp2"}

IsTemp(p) == p.name \in TempNames

\* Path.resolve(): absolute, symbolic links followed
resolve(p) == IF p \in DOMAIN Symlinks THEN Symlinks[p] ELSE p

\* validate_absolute_path: (resolved Path, error message or "").  On a
\* symbolic link loop Path.resolve() raises RuntimeError where the interpreter
\* is older than 3.13 (loop_raises) and returns the path as it is otherwise.
validate_absolute_path(path, param_name, loop_raises) ==
    IF ~path.abs
    THEN [path |-> path, err |-> param_name, resolved |-> FALSE, exc |-> ""]
    ELSE IF SymlinkLoop(path) /\ loop_raises
    THEN [path |-> path, err |-> "", resolved |-> TRUE, exc |-> "RuntimeError"]
    ELSE [path |-> resolve(path), err |-> "", resolved |-> TRUE, exc |-> ""]

\* the error text of validate_absolute_path for a parameter
AbsolutePathError(param_name) ==
    CASE param_name = "input_path" -> "input_path must be an absolute path"
      [] param_name = "output_path" -> "output_path must be an absolute path"
      [] OTHER -> "image_path must be an absolute path"

\* ext_to_format.get(output_file.suffix.lower()); "" stands for None
ext_to_format(ext) ==
    CASE ext = ".png" -> "PNG"
      [] ext \in {".jpg", ".jpeg"} -> "JPEG"
      [] ext = ".webp" -> "WEBP"
      [] ext = ".gif" -> "GIF"
      [] ext = ".bmp" -> "BMP"
      [] OTHER -> ""

(***************************************************************************)
(* File contents.                                                          *)
(***************************************************************************)
Absent == <<"(no file)">>

OutTag(c) == CASE c = 1 -> "out1" [] c = 2 -> "out2" [] c = 3 -> "out3" [] OTHER -> "out4"

PqTag(c) == CASE c = 1 -> "pq1" [] c = 2 -> "pq2" [] c = 3 -> "pq3" [] OTHER -> "pq4"

CallIds == 1..(MaxCalls + 1)

\* the complete encoding of an image, written in ImgChunks chunks
Complete(tag) == [k \in 1..ImgChunks |-> tag]

\* pngquant's output for a call: a shorter file
Quantized(c) == <<PqTag(c)>>

ImageTags == {"a", "b"} \cup {OutTag(c) : c \in CallIds}

\* whether the codec can decode a content
Decodable(content) ==
    \/ \E t \in ImageTags : content = Complete(t)
    \/ \E c \in CallIds : content = Quantized(c)

Range(f) == {f[k] : k \in DOMAIN f}

FileIn(de, dt, p) == IF p \in DOMAIN de THEN dt[de[p]] ELSE Absent

\* the content of the file at a path, Absent if there is none
FileAt(p) == FileIn(dirent, data, p)

\* the smallest inode number not in use
NewInode(dt) ==
    CHOOSE n \in 1..(Cardinality(DOMAIN dt) + 1) :
        n \notin DOMAIN dt /\ \A m \in 1..(n - 1) : m \in DOMAIN dt

\* an inode lives while a directory entry or an open file refers to it
Live(de, pr) == Range(de) \cup {pr[i].fd : i \in Procs}

Gc(de, dt, pr) == [n \in (DOMAIN dt \cap Live(de, pr)) |-> dt[n]]

\* a write of one chunk at chunk offset off (a gap reads as zeros)
WriteAt(content, off, chunk) ==
    [k \in 1..(IF Len(content) > off + 1 THEN Len(content) ELSE off + 1) |->
        IF k = off + 1 THEN chunk
        ELSE IF k <= Len(content) THEN content[k]
        ELSE "zeros"]

(***************************************************************************)
(* Tool calls: the locals of a call, and its response.                     *)
(***************************************************************************)
SaveTools == {"chromakey_to_transparent", "resize_image", "convert_format"}

ProducingTools == SaveTools \cup {"compress_png"}

Tools == ProducingTools \cup {"get_image_metadata"}

\* the arguments besides the paths: which of them is invalid, if any
ToolArgs(tool) ==
    CASE tool = "chromakey_to_transparent" -> {"ok", "bad_color"}
      [] tool = "resize_image" -> {"ok", "bad_resample", "no_dims"}
      [] OTHER -> {"ok"}

NoResponse ==
    [fields |-> {}, error |-> "", output_path |-> NoPath,
     compressed |-> FALSE, original_size |-> 0, size_bytes |-> 0]

\* json.dumps({"error": msg})
ErrorResponse(msg) == [NoResponse EXCEPT !.fields = {"error"}, !.error = msg]

\* the keys of a tool's success response
SuccessFields(tool, installed) ==
    CASE tool = "chromakey_to_transparent" ->
            {"output_path", "format", "size_bytes", "dimensions", "key_color",
             "tolerance", "pixels_processed", "pixels_made_transparent"}
      [] tool = "resize_image" ->
            {"output_path", "format", "size_bytes", "dimensions",
             "original_dimensions", "resample"}
      [] tool = "convert_format" ->
            {"output_path", "format", "size_bytes", "dimensions", "original_format"}
      [] tool = "compress_png" ->
            {"output_path", "format", "compressed", "original_size", "size_bytes",
             "reduction_percent"} \cup (IF installed THEN {} ELSE {"note"})
      [] OTHER ->
            {"path", "format", "mode", "width", "height", "has_transparency",
             "file_size_bytes"}

IdleProc ==
    [pc |-> "idle", tool |-> "", call |-> 0, arg |-> "ok",
     input_path |-> NoPath, output_path |-> NoPath,
     input_file |-> NoPath, output_file |-> NoPath,
     same_path |-> FALSE, actual_output |-> NoPath, temp_path |-> NoPath,
     fd |-> 0, off |-> 0, created |-> FALSE, towrite |-> <<>>,
     result_path |-> NoPath, original_size |-> 0, size_bytes |-> 0,
     compressed |-> FALSE,
     exc |-> "", response |-> NoResponse, outcome |-> "none",
     \* history, read by the properties only
     before |-> Absent, source_before |-> Absent, raised |-> "",
     aliased |-> FALSE, compressor_ran_on |-> NoPath,
     names_before |-> {}, dirs_before |-> {},
     accesses |-> {}, failed_at |-> "", committed |-> FALSE, intended |-> Absent]

\* the call returns a response
Returned(p, resp) ==
    [p EXCEPT !.pc = "done", !.outcome = "returned", !.response = resp,
              !.fd = 0, !.off = 0, !.towrite = <<>>]

\* an exception leaves the tool function
Escaped(p, exc, at) ==
    [p EXCEPT !.pc = "done", !.outcome = "raised", !.exc = exc, !.failed_at = at,
              !.fd = 0, !.off = 0, !.towrite = <<>>]

\* an exception is raised inside safe_output_path's with block: in the same-path
\* case the finally clause runs first, otherwise nothing stands in its way
RaisedInBody(p, exc, at) ==
    IF p.same_path
    THEN [p EXCEPT !.pc = "cleanup", !.exc = exc, !.failed_at = at,
                   !.fd = 0, !.off = 0, !.towrite = <<>>, !.raised = exc]
    ELSE [Escaped(p, exc, at) EXCEPT !.raised = exc]

Logged(p, what) == [p EXCEPT !.accesses = @ \cup {what}]

SetFs(de, dt, pr) ==
    /\ dirent' = de
    /\ proc' = pr
    /\ data' = Gc(de, dt, pr)

(***************************************************************************)
(* Tool calls: the steps.                                                  *)
(***************************************************************************)
\* the first lines of every tool: validate_absolute_path on each path argument,
\* in the order of the code, returning the first error
StartCall(i, tool, inp, out, arg, loop_raises) ==
    LET vin == validate_absolute_path(inp,
                   IF tool = "get_image_metadata" THEN "image_path" ELSE "input_path",
                   loop_raises)
        vout == validate_absolute_path(out, "output_path", loop_raises)
        p0 == [IdleProc EXCEPT !.tool = tool, !.call = ncalls + 1, !.arg = arg,
                               !.input_path = inp, !.output_path = out,
                               !.names_before = DOMAIN dirent,
                               !.dirs_before = dirs]
        p1 == IF vin.resolved THEN Logged(p0, "resolve") ELSE p0
    IN  /\ ncalls' = ncalls + 1
        /\ proc' = [proc EXCEPT ![i] =
              IF vin.err # ""
              THEN Returned(p1, ErrorResponse(AbsolutePathError(vin.err)))
              ELSE IF vin.exc # ""
              THEN Escaped(p1, vin.exc, "resolve")
              ELSE IF tool # "get_image_metadata" /\ vout.err # ""
              THEN Returned(p1, ErrorResponse(AbsolutePathError(vout.err)))
              ELSE IF tool # "get_image_metadata" /\ vout.exc # ""
              THEN Escaped(p1, vout.exc, "resolve")
              ELSE [p1 EXCEPT !.pc = "exists",
                              !.input_file = vin.path,
                              !.output_file = IF tool = "get_image_metadata"
                                              THEN NoPath ELSE vout.path,
                              !.before = IF tool = "get_image_metadata"
                                         THEN Absent ELSE FileAt(vout.path),
                              !.source_before = FileAt(vin.path),
                              !.aliased = /\ tool # "get_image_metadata"
                                          /\ vin.path \in DOMAIN dirent
                                          /\ vout.path \in DOMAIN dirent
                                          /\ dirent[vin.path] = dirent[vout.path]]]
        /\ UNCHANGED <<dirs, dirent, data, pngquant_installed, kvars, hvars>>

\* if not input_file.exists(): ..., then the checks of the other arguments that
\* come before the image is opened
ExistsCheck(i) ==
    LET p == Logged(proc[i], "exists")
    IN  /\ proc[i].pc = "exists"
        /\ proc' = [proc EXCEPT ![i] =
              IF p.input_file \notin DOMAIN dirent
              THEN Returned(p, ErrorResponse("file not found"))
              ELSE IF p.tool = "chromakey_to_transparent" /\ p.arg = "bad_color"
              THEN Returned(p, ErrorResponse("Invalid hex color"))
              ELSE IF p.tool = "resize_image" /\ p.arg = "bad_resample"
              THEN Returned(p, ErrorResponse("Invalid resample filter"))
              ELSE IF p.tool = "convert_format" /\ ext_to_format(p.output_file.ext) = ""
              THEN Returned(p, ErrorResponse("Unsupported output extension"))
              ELSE IF p.tool = "compress_png"
              THEN [p EXCEPT !.pc = "enter"]
              ELSE [p EXCEPT !.pc = "load"]]
        /\ UNCHANGED <<dirs, dirent, data, ncalls, pngquant_installed, kvars, hvars>>

\* PILImage.open(input_file) and the decoding of its pixels.  Only
\* get_image_metadata has a try / except around it.
Load(i) ==
    LET p == Logged(proc[i], "read")
        content == FileAt(p.input_file)
        exc == IF content = Absent THEN "FileNotFoundError"
               ELSE IF ~Decodable(content) THEN "UnidentifiedImageError"
               ELSE ""
    IN  /\ proc[i].pc = "load"
        /\ proc' = [proc EXCEPT ![i] =
              IF p.tool = "get_image_metadata"
              THEN IF exc # ""
                   THEN Returned(p, ErrorResponse(exc))
                   ELSE Returned(Logged(p, "stat"),
                                 [NoResponse EXCEPT
                                    !.fields = SuccessFields(p.tool, pngquant_installed),
                                    !.size_bytes = Len(content)])
              ELSE IF exc # ""
              THEN Escaped(p, exc, "load")
              ELSE IF p.tool = "resize_image" /\ p.arg = "no_dims"
              THEN Returned(p, ErrorResponse("Specify width, height, or scale"))
              ELSE [p EXCEPT !.pc = "enter"]]
        /\ UNCHANGED <<dirs, dirent, data, ncalls, pngquant_installed, kvars, hvars>>

\* same_path = input_path.resolve() == output_path.resolve()
SamePathNever(p) == FALSE

\* a comparison of the paths as the caller wrote them
SamePathAsGiven(p) == p.input_path = p.output_path

SamePath(p) == resolve(p.input_file) = resolve(p.output_file)

\* a with block whose body is handed the destination whatever was staged
EnteredOnDestination(p, same, target, temp) ==
    [p EXCEPT !.pc = "open", !.same_path = same,
              !.actual_output = p.output_file, !.temp_path = temp]

\* the body's write target is in place: the steps of the with block follow
Entered(p, same, target, temp) ==
    [p EXCEPT !.pc = "open", !.same_path = same,
              !.actual_output = target, !.temp_path = temp]

\* safe_output_path up to its yield: the destination itself, or a new empty
\* file from tempfile.mkstemp(suffix=output_path.suffix, dir=output_path.parent)
Enter(i) ==
    LET p == proc[i]
    IN  /\ p.pc = "enter"
        /\ IF ~SamePath(p)
           THEN /\ proc' = [proc EXCEPT ![i] = Entered(p, FALSE, p.output_file, NoPath)]
                /\ UNCHANGED <<dirent, data>>
           ELSE IF p.output_file.dir \notin dirs
           THEN /\ proc' = [proc EXCEPT ![i] =
                              Escaped(Logged(p, "mkstemp"), "FileNotFoundError", "mkstemp")]
                /\ UNCHANGED <<dirent, data>>
           ELSE \E n \in TempNames :
                   LET tp == AbsPath(p.output_file.dir, n, p.output_file.ext)
                       ino == NewInode(data)
                   IN  /\ tp \notin DOMAIN dirent
                       /\ SetFs(dirent @@ (tp :> ino), data @@ (ino :> <<>>),
                                [proc EXCEPT ![i] =
                                    Entered(Logged(p, "mkstemp"), TRUE, tp, tp)])
        /\ UNCHANGED <<dirs, ncalls, pngquant_installed, kvars, hvars>>

\* mkstemp raises (no space, no permission): nothing was created
EnterFail(i) ==
    LET p == proc[i]
    IN  /\ p.pc = "enter"
        /\ SamePath(p)
        /\ proc' = [proc EXCEPT ![i] =
                       Escaped(Logged(p, "mkstemp"), "OSError", "mkstemp")]
        /\ UNCHANGED <<dirs, dirent, data, ncalls, pngquant_installed, kvars, hvars>>

\* what the body is about to write: img.save encodes the tool's result,
\* shutil.copy copies the input
BodyContent(p) ==
    IF p.tool \in SaveTools THEN Complete(OutTag(p.call)) ELSE FileAt(p.input_file)

\* the reason the open of the body fails, "" if it does not: shutil.copy checks
\* the source and refuses to copy a file onto itself; opening for writing needs
\* the directory
OpenError(p) ==
    IF p.tool = "compress_png" /\ p.input_file \notin DOMAIN dirent
    THEN "FileNotFoundError"
    ELSE IF /\ p.tool = "compress_png"
            /\ p.actual_output \in DOMAIN dirent
            /\ dirent[p.actual_output] = dirent[p.input_file]
    THEN "SameFileError"
    ELSE IF p.actual_output.dir \notin dirs
    THEN "FileNotFoundError"
    ELSE ""

\* the first step of the body, img.save(actual_output) in save_image_to_path or
\* shutil.copy(input_file, actual_output): the target is opened for writing,
\* which creates it or truncates it
SaveOpen(i) ==
    LET p == Logged(proc[i], "open")
        target == p.actual_output
        exists == target \in DOMAIN dirent
        ino == IF exists THEN dirent[target] ELSE NewInode(data)
        content == BodyContent(p)
        q == [p EXCEPT !.fd = IF content = <<>> THEN 0 ELSE ino,
                       !.off = 0, !.created = ~exists, !.towrite = content,
                       !.intended = content,
                       !.pc = IF content = <<>> THEN "stat" ELSE "write"]
    IN  /\ proc[i].pc = "open"
        /\ IF OpenError(p) # ""
           THEN SetFs(dirent, data,
                      [proc EXCEPT ![i] = RaisedInBody(p, OpenError(p), "open")])
           ELSE SetFs(IF exists THEN dirent ELSE dirent @@ (target :> ino),
                      IF exists THEN [data EXCEPT ![ino] = <<>>]
                                ELSE data @@ (ino :> <<>>),
                      [proc EXCEPT ![i] = q])
        /\ UNCHANGED <<dirs, ncalls, pngquant_installed, kvars, hvars>>

\* the open raises for a reason of the environment (no permission)
SaveOpenFail(i) ==
    /\ proc[i].pc = "open"
    /\ proc' = [proc EXCEPT ![i] =
                   RaisedInBody(Logged(proc[i], "open"), "OSError", "open")]
    /\ UNCHANGED <<dirs, dirent, data, ncalls, pngquant_installed, kvars, hvars>>

\* one write() of the body; after the last one the file is closed
SaveWrite(i) ==
    LET p == Logged(proc[i], "write")
        last == p.off + 1 = Len(p.towrite)
    IN  /\ proc[i].pc = "write"
        /\ SetFs(dirent,
                 [data EXCEPT ![p.fd] = WriteAt(@, p.off, p.towrite[p.off + 1])],
                 [proc EXCEPT ![i] =
                     IF last
                     THEN [p EXCEPT !.pc = "stat", !.fd = 0, !.off = 0, !.towrite = <<>>]
                     ELSE [p EXCEPT !.off = p.off + 1]])
        /\ UNCHANGED <<dirs, ncalls, pngquant_installed, kvars, hvars>>

\* a write() or the encoder raises.  Image.save closes the file and removes it
\* if the save created it; shutil.copy leaves what was written.
SaveWriteFail(i) ==
    LET p == Logged(proc[i], "write")
        removes == /\ p.tool \in SaveTools
                   /\ p.created
                   /\ p.actual_output \in DOMAIN dirent
    IN  /\ proc[i].pc = "write"
        /\ SetFs(IF removes
                 THEN [q \in DOMAIN dirent \ {p.actual_output} |-> dirent[q]]
                 ELSE dirent,
                 data,
                 [proc EXCEPT ![i] = RaisedInBody(p, "OSError", "write")])
        /\ UNCHANGED <<dirs, ncalls, pngquant_installed, kvars, hvars>>

\* a response that keeps the output_path save_image_to_path was given
SuccessResponseOfWriteTarget(p, installed) ==
    [fields |-> SuccessFields(p.tool, installed), error |-> "",
     output_path |-> p.actual_output, compressed |-> p.compressed,
     original_size |-> p.original_size, size_bytes |-> p.size_bytes]

\* the response of a successful producing call
\* (result["output_path"] = str(output_file))
SuccessResponse(p, installed) ==
    [fields |-> SuccessFields(p.tool, installed), error |-> "",
     output_path |-> p.output_file, compressed |-> p.compressed,
     original_size |-> p.original_size, size_bytes |-> p.size_bytes]

\* the with block's body is over without an exception: in the same-path case
\* the generator resumes after its yield, otherwise the tool returns
BodyDone(p, installed) ==
    IF p.same_path
    THEN [p EXCEPT !.pc = "commit"]
    ELSE Returned(p, SuccessResponse(p, installed))

\* actual_output.stat().st_size, after the save or the copy
SaveStat(i) ==
    LET p == Logged(proc[i], "stat")
        content == FileAt(p.actual_output)
    IN  /\ proc[i].pc = "stat"
        /\ proc' = [proc EXCEPT ![i] =
              IF content = Absent
              THEN RaisedInBody(p, "FileNotFoundError", "stat")
              ELSE IF p.tool = "compress_png"
              THEN [p EXCEPT !.pc = "pngquant", !.original_size = Len(content)]
              ELSE BodyDone([p EXCEPT !.size_bytes = Len(content),
                                      !.result_path = p.actual_output],
                            pngquant_installed)]
        /\ UNCHANGED <<dirs, dirent, data, ncalls, pngquant_installed, kvars, hvars>>

\* a compress_png that gives up where the compressor is missing
PngquantAbsentRaises(i) ==
    /\ proc[i].pc = "pngquant"
    /\ ~pngquant_installed
    /\ proc' = [proc EXCEPT ![i] =
                   RaisedInBody(proc[i], "FileNotFoundError", "pngquant")]
    /\ UNCHANGED <<dirs, dirent, data, ncalls, pngquant_installed, kvars, hvars>>

\* is_pngquant_available() is false: compressed_size = original_size
PngquantAbsent(i) ==
    LET p == proc[i]
    IN  /\ p.pc = "pngquant"
        /\ ~pngquant_installed
        /\ proc' = [proc EXCEPT ![i] =
                       BodyDone([p EXCEPT !.size_bytes = p.original_size,
                                          !.compressed = FALSE],
                                pngquant_installed)]
        /\ UNCHANGED <<dirs, dirent, data, ncalls, pngquant_installed, kvars, hvars>>

\* a compress_png that hands the compressor its input
PngquantTargetIsInput(p) == p.input_file

\* the file run_pngquant is given: run_pngquant(actual_output, quality)
PngquantTarget(p) == p.actual_output

\* run_pngquant(actual_output, quality): the compressor rewrites the file it is
\* given (return code 0), or leaves it (99, or an error code)
PngquantRun(i) ==
    LET p == [Logged(proc[i], "pngquant") EXCEPT
                 !.compressor_ran_on = PngquantTarget(proc[i])]
        content == FileAt(PngquantTarget(p))
    IN  /\ p.pc = "pngquant"
        /\ pngquant_installed
        /\ IF content = Absent
           THEN SetFs(dirent, data,
                      [proc EXCEPT ![i] = RaisedInBody(p, "FileNotFoundError", "pngquant")])
           ELSE \E rc \in {0, 99, 2} :
                   /\ rc = 0 => Decodable(content)
                   /\ LET after == IF rc = 0 THEN Quantized(p.call) ELSE content
                          original_size == Len(content)
                          compressed_size == IF rc \in {0, 99}
                                             THEN Len(after) ELSE original_size
                      IN  SetFs(dirent,
                                [data EXCEPT ![dirent[PngquantTarget(p)]] = after],
                                [proc EXCEPT ![i] =
                                    BodyDone([p EXCEPT
                                                !.original_size = original_size,
                                                !.intended = IF rc = 0 THEN after
                                                              ELSE p.intended,
                                                !.size_bytes = compressed_size,
                                                !.compressed =
                                                    original_size # compressed_size],
                                             pngquant_installed)])
        /\ UNCHANGED <<dirs, ncalls, pngquant_installed, kvars, hvars>>

\* subprocess.run raises (the binary cannot be executed)
PngquantFail(i) ==
    /\ proc[i].pc = "pngquant"
    /\ pngquant_installed
    /\ proc' = [proc EXCEPT ![i] =
                   RaisedInBody(Logged(proc[i], "pngquant"), "OSError", "pngquant")]
    /\ UNCHANGED <<dirs, dirent, data, ncalls, pngquant_installed, kvars, hvars>>

\* a move that leaves the destination as it was
RenamedNothing(de, src, dst) == de

\* the directory after os.rename(src, dst)
Renamed(de, src, dst) ==
    [q \in (DOMAIN de \ {src}) \cup {dst} |-> IF q = dst THEN de[src] ELSE de[q]]

\* shutil.move(str(temp_path), str(output_path)): both are in one directory, so
\* this is os.rename, which replaces the destination in one step
Commit(i) ==
    LET p == Logged(proc[i], "rename")
    IN  /\ p.pc = "commit"
        /\ p.temp_path \in DOMAIN dirent
        /\ SetFs(Renamed(dirent, p.temp_path, p.output_file), data,
                 [proc EXCEPT ![i] = [p EXCEPT !.pc = "cleanup", !.committed = TRUE]])
        /\ UNCHANGED <<dirs, ncalls, pngquant_installed, kvars, hvars>>

\* shutil.move raises and has changed nothing
CommitFail(i) ==
    /\ proc[i].pc = "commit"
    /\ proc' = [proc EXCEPT ![i] =
                   RaisedInBody(Logged(proc[i], "rename"), "OSError", "commit")]
    /\ UNCHANGED <<dirs, dirent, data, ncalls, pngquant_installed, kvars, hvars>>

\* the directory after: if temp_path.exists(): temp_path.unlink()
UnlinkedNever(de, path) == de

Unlinked(de, path) ==
    IF path \in DOMAIN de THEN [q \in DOMAIN de \ {path} |-> de[q]] ELSE de

\* a finally clause that unlinks without asking
TempExistsAlways(de, path) == TRUE

\* temp_path.exists()
TempExists(de, path) == path \in DOMAIN de

\* the finally clause of safe_output_path, and what follows it: the pending
\* exception goes on, or the tool builds its response.  An unlink of a file
\* that is not there raises FileNotFoundError in place of what was pending.
Cleanup(i) ==
    LET p == Logged(proc[i], "unlink")
        unlinks == TempExists(dirent, p.temp_path)
    IN  /\ p.pc = "cleanup"
        /\ SetFs(IF unlinks THEN Unlinked(dirent, p.temp_path) ELSE dirent, data,
                 [proc EXCEPT ![i] =
                     IF unlinks /\ p.temp_path \notin DOMAIN dirent
                     THEN Escaped(p, "FileNotFoundError", p.failed_at)
                     ELSE IF p.exc # ""
                     THEN Escaped(p, p.exc, p.failed_at)
                     ELSE Returned(p, SuccessResponse(p, pngquant_installed))])
        /\ UNCHANGED <<dirs, ncalls, pngquant_installed, kvars, hvars>>

(***************************************************************************)
(* The specifications.                                                     *)
(***************************************************************************)
FsInitState ==
    /\ dirs = {"/d"}
    /\ dirent = (FileA :> 1) @@ (FileB :> 2) @@ (FileJunk :> 3) @@ (FileH :> 2)
    /\ data = (1 :> Complete("a")) @@ (2 :> Complete("b")) @@ (3 :> Complete("junk"))
    /\ proc = [i \in Procs |-> IdleProc]
    /\ ncalls = 0

InputArgs == {RelPath, FileA, LinkLoop, FileB, FileJunk, FileM}

OutputArgs == {RelPath, FileA, LinkA, FileH, FileM, FileN, FileT}

\* the tool function is left: its locals are gone
Finish(i) ==
    /\ proc[i].pc = "done"
    /\ proc' = [proc EXCEPT ![i] = IdleProc]
    /\ UNCHANGED <<dirs, dirent, data, ncalls, pngquant_installed, kvars, hvars>>

\* a tool is called, with any of the arguments above
Call(i) ==
    /\ proc[i].pc = "idle"
    /\ ncalls < MaxCalls
    /\ \E tool \in Tools, inp \in InputArgs :
          \E out \in (IF tool = "get_image_metadata" THEN {NoPath} ELSE OutputArgs),
             arg \in ToolArgs(tool), loop_raises \in BOOLEAN :
                StartCall(i, tool, inp, out, arg, loop_raises)

\* the three tools that save through save_image_to_path take the same steps once
\* their arguments are checked: one of them stands for all three
ConcTools == {"convert_format", "compress_png"}

\* a caller that has not called yet calls a producing tool on valid arguments
\* with FileA as its destination
ConcCall(i) ==
    /\ proc[i].pc = "idle"
    /\ \E tool \in ConcTools, inp \in {FileA, LinkA, FileB}, loop_raises \in BOOLEAN :
          StartCall(i, tool, inp, FileA, "ok", loop_raises)

\* one caller: the calls follow one another
Init == FsInitState /\ pngquant_installed \in BOOLEAN /\ KeyIdleState /\ HexIdleState

Next ==
    \/ Call(1)
    \/ ExistsCheck(1)
    \/ Load(1)
    \/ Enter(1)
    \/ EnterFail(1)
    \/ SaveOpen(1)
    \/ SaveOpenFail(1)
    \/ SaveWrite(1)
    \/ SaveWriteFail(1)
    \/ SaveStat(1)
    \/ PngquantAbsent(1)
    \/ PngquantRun(1)
    \/ PngquantFail(1)
    \/ Commit(1)
    \/ CommitFail(1)
    \/ Cleanup(1)
    \/ Finish(1)

Spec == Init /\ [][Next]_vars

\* two callers whose calls interleave step by step
ConcNext ==
    \E i \in Procs :
        \/ ConcCall(i)
        \/ ExistsCheck(i)
        \/ Load(i)
        \/ Enter(i)
        \/ EnterFail(i)
        \/ SaveOpen(i)
        \/ SaveOpenFail(i)
        \/ SaveWrite(i)
        \/ SaveWriteFail(i)
        \/ SaveStat(i)
        \/ PngquantAbsent(i)
        \/ PngquantRun(i)
        \/ PngquantFail(i)
        \/ Commit(i)
        \/ CommitFail(i)
        \/ Cleanup(i)

SpecConc == Init /\ [][ConcNext]_vars

\* the keying loop on its own
KeyInit == KeyInitState /\ FsInitState /\ pngquant_installed = FALSE /\ HexIdleState

KeyNext == (KeyPixel \/ KeyReport) /\ UNCHANGED <<fsvars, hvars>>

SpecKey == KeyInit /\ [][KeyNext]_vars

\* the color parsing of chromakey_to_transparent on its own
HexInit == HexCallState /\ FsInitState /\ pngquant_installed = FALSE /\ KeyIdleState

HexNext == (HexParse \/ HexReport) /\ UNCHANGED <<fsvars, kvars>>

SpecHex == HexInit /\ [][HexNext]_vars

(***************************************************************************)
(* Properties of the keying loop (checked under SpecKey).                  *)
(***************************************************************************)
\* the loop has been through the pixel at c
Processed(c) == c[2] < y \/ (c[2] = y /\ c[1] < x)

\* the square of the Euclidean distance of the decoded pixel at c to the key
SqDistAt(c) ==
    (pixels0[c][1] - key_rgb[1]) * (pixels0[c][1] - key_rgb[1])
    + (pixels0[c][2] - key_rgb[2]) * (pixels0[c][2] - key_rgb[2])
    + (pixels0[c][3] - key_rgb[3]) * (pixels0[c][3] - key_rgb[3])

\* m <= 255 * sqrt(n) for m, n >= 0, i.e. m^2 <= 65025 n, within 32 bits:
\* with m = 255 q + r it is 510 q r + r^2 <= 65025 (n - q^2), which is false
\* for n < q^2 and true for n >= (q + 1)^2
AtMost255Sqrt(m, n) ==
    LET q == m \div 255
        r == m % 255
    IN  IF n < q * q THEN FALSE
        ELSE IF n - q * q > 2 * q THEN TRUE
        ELSE 510 * q * r + r * r <= 65025 * (n - q * q)

InGraduatedZone(c) ==
    /\ tolerance > 0
    /\ SqDistAt(c) >= tolerance * tolerance
    /\ SqDistAt(c) < 9 * tolerance * tolerance

\* C7: for a tolerance > 0 every pixel the loop has been through follows the
\* three-zone policy: below the tolerance its alpha is 0; from the tolerance to
\* below three times the tolerance its alpha is 255 * (d - tolerance) /
\* (2 * tolerance) truncated, within 0..255; from three times the tolerance on
\* its alpha is the decoded one; its R, G, B are the decoded ones in all zones.
C7_ThreeZonePolicy ==
    tolerance > 0 =>
        \A c \in Coords(width, height) :
            IF ~Processed(c) THEN pixels[c] = pixels0[c]
            ELSE /\ pixels[c][1] = pixels0[c][1]
                 /\ pixels[c][2] = pixels0[c][2]
                 /\ pixels[c][3] = pixels0[c][3]
                 /\ SqDistAt(c) < tolerance * tolerance => pixels[c][4] = 0
                 /\ InGraduatedZone(c) =>
                       \E k \in 0..255 :
                           /\ AtMost255Sqrt(tolerance * (2 * k + 255), SqDistAt(c))
                           /\ ~AtMost255Sqrt(tolerance * (2 * k + 257), SqDistAt(c))
                           /\ pixels[c][4] = k
                 /\ SqDistAt(c) >= 9 * tolerance * tolerance =>
                       pixels[c][4] = pixels0[c][4]

\* a pixel of the graduated zone got an alpha strictly between 0 and 255 that
\* is not the decoded one, beside a pixel of another zone
C7_Witness ==
    /\ kpc = "done"
    /\ tolerance > 0
    /\ \E c \in Coords(width, height) :
          /\ InGraduatedZone(c)
          /\ pixels[c][4] \in 1..254
          /\ pixels[c][4] # pixels0[c][4]
    /\ \E c \in Coords(width, height) :
          /\ SqDistAt(c) >= 9 * tolerance * tolerance
          /\ pixels0[c][4] # 255

\* C8 as stated: with tolerance 0 the pixels of exactly the key colour end with
\* alpha 0 and every other pixel is left as decoded.
C8_ExactMatchesTransparent ==
    (kpc = "done" /\ tolerance = 0) =>
        \A c \in Coords(width, height) :
            IF SqDistAt(c) = 0 THEN pixels[c][4] = 0 ELSE pixels[c] = pixels0[c]

\* C8 amended: with tolerance 0 the loop changes no pixel, one of exactly the
\* key colour included, and counts no pixel as made transparent.
C8_ZeroToleranceChangesNothing ==
    tolerance = 0 => (pixels = pixels0 /\ pixels_transparent = 0)

\* the loop went through an opaque pixel of exactly the key colour
C8_Witness ==
    /\ kpc = "done"
    /\ tolerance = 0
    /\ \E c \in Coords(width, height) : SqDistAt(c) = 0 /\ pixels0[c][4] = 255

\* C9: for a tolerance > 0, of two pixels of the graduated zone the one that is
\* not farther from the key has the alpha that is not larger, and both alphas
\* lie in 0..255.
C9_GraduatedAlphaMonotone ==
    tolerance > 0 =>
        \A c1, c2 \in Coords(width, height) :
            (/\ Processed(c1) /\ Processed(c2)
             /\ InGraduatedZone(c1) /\ InGraduatedZone(c2)
             /\ SqDistAt(c1) <= SqDistAt(c2))
            => /\ pixels[c1][4] <= pixels[c2][4]
               /\ pixels[c1][4] \in 0..255
               /\ pixels[c2][4] \in 0..255

\* two pixels of the graduated zone at different distances, with different alphas
C9_Witness ==
    /\ tolerance > 0
    /\ \E c1, c2 \in Coords(width, height) :
          /\ Processed(c1) /\ Processed(c2)
          /\ InGraduatedZone(c1) /\ InGraduatedZone(c2)
          /\ SqDistAt(c1) < SqDistAt(c2)
          /\ pixels[c1][4] < pixels[c2][4]

\* C10: the response reports width * height as pixels_processed and, as
\* pixels_made_transparent, the number of pixels whose distance to the key is
\* below the tolerance.
C10_ReportedCounts ==
    kpc = "done" =>
        /\ kresult.pixels_processed = width * height
        /\ kresult.pixels_made_transparent =
              Cardinality({c \in Coords(width, height) :
                              tolerance > 0 /\ SqDistAt(c) < tolerance * tolerance})

\* a counted pixel beside a pixel of the graduated zone whose alpha came out 0
C10_Witness ==
    /\ kpc = "done"
    /\ kresult.pixels_made_transparent = 1
    /\ \E c \in Coords(width, height) : InGraduatedZone(c) /\ pixels[c][4] = 0

(***************************************************************************)
(* Properties of the tool calls (checked under Spec, one caller, and       *)
(* under SpecConc, two callers).                                           *)
(***************************************************************************)
\* the call of p is one of a producing tool whose canonical source and
\* destination are the same path
InPlace(p) ==
    /\ p.pc # "idle"
    /\ p.tool \in ProducingTools
    /\ p.input_file # NoPath
    /\ resolve(p.input_file) = resolve(p.output_file)

\* the files of a directory
FilesIn(names, dir) == {q \in names : q.dir = dir}

\* C1: when an in-place call ends with an exception raised by the body of the
\* with block (the open, a write, the stat or the compressor), the destination
\* holds the bytes it held before the call and its directory holds the files
\* it held before the call, so no temporary file is left.
C1_FailedBodyLeavesOriginal ==
    \A i \in Procs :
        (/\ proc[i].pc = "done"
         /\ InPlace(proc[i])
         /\ proc[i].outcome = "raised"
         /\ proc[i].failed_at \in {"open", "write", "stat", "pngquant"})
        => /\ FileAt(proc[i].output_file) = proc[i].before
           /\ Len(FileAt(proc[i].output_file)) = Len(proc[i].before)
           /\ FilesIn(DOMAIN dirent, proc[i].output_file.dir)
                 = FilesIn(proc[i].names_before, proc[i].output_file.dir)
           /\ \A q \in DOMAIN dirent : ~IsTemp(q)

\* an in-place call whose body failed in a write, after the temporary file was
\* created and opened, has ended
C1_Witness ==
    \E i \in Procs :
        /\ proc[i].pc = "done"
        /\ InPlace(proc[i])
        /\ proc[i].outcome = "raised"
        /\ proc[i].failed_at = "write"
        /\ proc[i].temp_path # NoPath
        /\ proc[i].before = Complete("a")

\* both callers have returned a success response
BothSucceeded ==
    \A i \in Procs :
        /\ proc[i].pc = "done"
        /\ proc[i].outcome = "returned"
        /\ proc[i].response.error = ""

\* C2 as stated: when two concurrent calls with the same destination have both
\* succeeded, in place or not, the destination holds the complete output of one
\* of them.
C2_DestinationIsOneWholeOutput ==
    BothSucceeded => \E i \in Procs : FileAt(FileA) = proc[i].intended

\* C2 amended: as long as every call on the destination is in place, the
\* destination holds a complete file at every moment: what it held at first or
\* the complete output of a call that has committed; and when both calls have
\* succeeded it holds the complete output of one of them.
C2_StagedDestinationIsWhole ==
    (\A i \in Procs : proc[i].pc # "idle" => InPlace(proc[i]))
    => /\ Decodable(FileAt(FileA))
       /\ \/ FileAt(FileA) = Complete("a")
          \/ \E i \in Procs : proc[i].committed /\ FileAt(FileA) = proc[i].intended
       /\ BothSucceeded => \E i \in Procs : FileAt(FileA) = proc[i].intended

\* two in-place calls on one path: one has committed while the other has its
\* own temporary file written and is about to commit
C2_Witness ==
    /\ InPlace(proc[1]) /\ InPlace(proc[2])
    /\ proc[1].committed
    /\ proc[2].pc = "commit"
    /\ proc[2].temp_path \in DOMAIN dirent
    /\ proc[1].intended # proc[2].intended

\* the state part of C3
C3_State ==
    \A i \in Procs :
        InPlace(proc[i]) =>
            /\ ~proc[i].committed => FileAt(proc[i].output_file) = proc[i].before
            /\ proc[i].committed =>
                  /\ FileAt(proc[i].output_file) = proc[i].intended
                  /\ Decodable(proc[i].before) => Decodable(proc[i].intended)
                  /\ proc[i].tool \in SaveTools =>
                        proc[i].intended = Complete(OutTag(proc[i].call))
                  /\ proc[i].failed_at \notin {"open", "write", "stat", "pngquant"}
            /\ (/\ proc[i].pc = "done"
                /\ proc[i].outcome = "returned"
                /\ proc[i].response.error = "") => proc[i].committed

\* the step part of C3: a step of an in-place call that changes what the
\* destination holds is the one rename, taken when the body is over
C3_Step ==
    \A i \in Procs :
        (/\ InPlace(proc[i])
         /\ proc[i].pc # "done"
         /\ FileAt(proc[i].output_file)' # FileAt(proc[i].output_file))
        => /\ proc[i].pc = "commit"
           /\ ~proc[i].committed
           /\ proc[i].committed'
           /\ FileAt(proc[i].output_file)' = FileAt(proc[i].temp_path)

\* C3: during an in-place call the destination holds what it held before the
\* call until the rename, and the complete new output from the rename on; the
\* rename is the only step that changes it and comes after the body ended
\* without error; a call that returns success has committed.
C3_AtomicReplace == []C3_State /\ [][C3_Step]_vars

\* an in-place call has returned success and the destination holds its output,
\* which differs from what it held before
C3_Witness ==
    \E i \in Procs :
        /\ proc[i].pc = "done"
        /\ InPlace(proc[i])
        /\ proc[i].outcome = "returned"
        /\ proc[i].response.error = ""
        /\ FileAt(proc[i].output_file) = Complete(OutTag(proc[i].call))
        /\ proc[i].before = Complete("a")

\* C4 as stated: when a call is about to open its write target, the directory
\* of the target exists; and no call fails for a destination directory that
\* did not exist when it was made.
C4_DirectoryCreatedBeforeWrite ==
    \A i \in Procs :
        /\ proc[i].pc = "open" => proc[i].actual_output.dir \in dirs
        /\ (/\ proc[i].pc = "done"
            /\ proc[i].output_file # NoPath
            /\ proc[i].output_file.dir \notin proc[i].dirs_before)
           => ~(proc[i].outcome = "raised" /\ proc[i].exc = "FileNotFoundError")

\* C5 as stated: every call ends by returning a response; a response with an
\* error has no other field, and a response without one is a success response.
C5_AlwaysNormalizedResponse ==
    \A i \in Procs :
        proc[i].pc = "done" =>
            /\ proc[i].outcome = "returned"
            /\ proc[i].response.error # "" => proc[i].response.fields = {"error"}
            /\ proc[i].response.error = "" => "error" \notin proc[i].response.fields

\* a path argument of the call of p is not absolute
HasRelativePath(p) ==
    \/ ~p.input_path.abs
    \/ p.tool # "get_image_metadata" /\ ~p.output_path.abs

\* C6 as stated: a call with a path argument that is not absolute returns an
\* error that says 'absolute path', without an existence check, a read, a
\* temporary file or a write before it; the resolve() of an absolute input
\* path that the code runs before it looks at the output path is let through.
C6_RelativePathRejectedFirst ==
    \A i \in Procs :
        (proc[i].pc # "idle" /\ HasRelativePath(proc[i]))
        => /\ proc[i].pc = "done"
           /\ proc[i].outcome = "returned"
           /\ proc[i].response.fields = {"error"}
           /\ proc[i].response.error \in
                 {AbsolutePathError(n) : n \in {"input_path", "output_path", "image_path"}}
           /\ proc[i].accesses \subseteq {"resolve"}
           /\ DOMAIN dirent = proc[i].names_before

(***************************************************************************)
(* Properties of the color parsing, checked under SpecHex.                 *)
(***************************************************************************)
\* the string without its first character if that is a '#'
WithoutOneHash(str) == IF str # <<>> /\ Head(str) = "#" THEN Tail(str) ELSE str

\* at most one leading '#', then exactly six hexadecimal digits
WellFormedHex(str) ==
    /\ Len(WithoutOneHash(str)) = 6
    /\ \A k \in 1..6 : IsHexDigit(WithoutOneHash(str)[k])

\* the value of the two hexadecimal digits at k and k + 1
BytePair(h, k) == 16 * DigitValue(h[k]) + DigitValue(h[k + 1])

\* C11 as stated: parse_hex_color accepts a string exactly when it is at most
\* one '#' followed by six hexadecimal digits, and then returns the three byte
\* pairs; any other string is a ValueError, which chromakey_to_transparent
\* returns as an error result, the files being as they were.
C11_HexColorAcceptedIffWellFormed ==
    hpc \in {"parsed", "returned", "open"} =>
        /\ ~hparsed.raised <=> WellFormedHex(hex_color)
        /\ WellFormedHex(hex_color) =>
              LET h == WithoutOneHash(hex_color)
              IN  hparsed.rgb = <<BytePair(h, 1), BytePair(h, 3), BytePair(h, 5)>>
        /\ ~WellFormedHex(hex_color) =>
              /\ hpc # "open"
              /\ hpc = "returned" => hresponse # ""
              /\ DOMAIN dirent = {FileA, FileB, FileH, FileJunk}

(***************************************************************************)
(* Properties of the tool calls, continued (Spec).                         *)
(***************************************************************************)
\* process i has ended a call of the tool with a success response
Succeeded(i, tool) ==
    /\ proc[i].pc = "done"
    /\ proc[i].tool = tool
    /\ proc[i].outcome = "returned"
    /\ proc[i].response.error = ""

\* C12: where pngquant is not installed, a compress_png call does not fail at
\* the compression step, and a call that succeeds returns no error field,
\* compressed = false and size_bytes = original_size = the size of the input,
\* with the destination holding the bytes the input held.
C12_AbsentCompressorDegrades ==
    \A i \in Procs :
        (proc[i].tool = "compress_png" /\ ~pngquant_installed)
        => /\ proc[i].failed_at # "pngquant"
           /\ Succeeded(i, "compress_png")
              => /\ "error" \notin proc[i].response.fields
                 /\ proc[i].response.compressed = FALSE
                 /\ proc[i].response.size_bytes = proc[i].response.original_size
                 /\ proc[i].response.size_bytes = Len(proc[i].source_before)
                 /\ FileAt(proc[i].output_file) = proc[i].source_before

\* compress_png has copied an image to a new destination without pngquant
C12_Witness ==
    \E i \in Procs :
        /\ Succeeded(i, "compress_png")
        /\ ~pngquant_installed
        /\ proc[i].input_file = FileB
        /\ proc[i].output_file = FileM
        /\ FileAt(FileM) = Complete("b")

\* process i has ended a call of a producing tool with an exception
Failed(i) ==
    /\ proc[i].pc = "done"
    /\ proc[i].tool \in ProducingTools
    /\ proc[i].outcome = "raised"
    /\ proc[i].output_file # NoPath

\* the destination of the call of process i is as it was before the call, and
\* so are the names of the files
PriorStateUntouched(i) ==
    /\ FileAt(proc[i].output_file) = proc[i].before
    /\ DOMAIN dirent = proc[i].names_before

\* C13 as stated: a call that ends with an exception, whatever its source and
\* destination, leaves the destination with the bytes it had and no new file.
C13_FailureLeavesPriorState ==
    \A i \in Procs : Failed(i) => PriorStateUntouched(i)

\* C13 amended: a call that ends with an exception leaves the destination with
\* the bytes it had and no new file, if it is in place or if it failed before
\* its write target was opened (while resolving, reading or staging).
C13_StagedFailureLeavesPriorState ==
    \A i \in Procs :
        (/\ Failed(i)
         /\ \/ InPlace(proc[i])
            \/ proc[i].failed_at \in {"load", "mkstemp", "open"})
        => PriorStateUntouched(i)

\* an in-place call whose commit raised has ended, after a body that wrote the
\* whole temporary file
C13_Witness ==
    \E i \in Procs :
        /\ Failed(i)
        /\ InPlace(proc[i])
        /\ proc[i].failed_at = "commit"
        /\ proc[i].before = Complete("a")
        /\ proc[i].intended # proc[i].before

\* process i has ended a call of a producing tool with a success response
Produced(i) == \E tool \in ProducingTools : Succeeded(i, tool)

\* C14 as stated: the output_path of a success response of a producing tool is
\* the destination path as the caller gave it, and not the temporary file.
C14_ReportedPathIsRequested ==
    \A i \in Procs :
        Produced(i) =>
            /\ proc[i].response.output_path = proc[i].output_path
            /\ proc[i].response.output_path # proc[i].temp_path

\* C14 amended: the output_path of a success response of a producing tool is
\* the canonical (resolved) form of the destination path the caller gave, and
\* not the temporary file.
C14_ReportedPathIsCanonicalDestination ==
    \A i \in Procs :
        Produced(i) =>
            /\ proc[i].response.output_path = resolve(proc[i].output_path)
            /\ proc[i].response.output_path # proc[i].temp_path
            /\ ~IsTemp(proc[i].response.output_path)

\* an in-place call that was given the symbolic link as its destination wrote
\* through a temporary file and succeeded
C14_Witness ==
    \E i \in Procs :
        /\ Produced(i)
        /\ proc[i].output_path = LinkA
        /\ proc[i].temp_path # NoPath
        /\ proc[i].committed

\* process i has left safe_output_path in the same-path case
LeftStaged(i) ==
    /\ proc[i].pc = "done"
    /\ proc[i].tool \in ProducingTools
    /\ proc[i].temp_path # NoPath

\* C15: once safe_output_path is left in the same-path case, after a commit,
\* after an exception of the body or after an exception of the commit, the
\* temporary file does not exist; after a commit the call raises nothing; an
\* exception of the body or of the commit is the one that leaves the call.
C15_CleanupOnEveryExit ==
    \A i \in Procs :
        LeftStaged(i) =>
            /\ proc[i].temp_path \notin DOMAIN dirent
            /\ \A q \in DOMAIN dirent : ~IsTemp(q)
            /\ proc[i].committed => proc[i].outcome = "returned"
            /\ proc[i].raised # ""
               => /\ proc[i].outcome = "raised"
                  /\ proc[i].exc = proc[i].raised
            /\ proc[i].committed \/ proc[i].raised # ""

\* a same-path call has ended after an exception of its commit, and an earlier
\* call has changed the destination
C15_Witness ==
    /\ ncalls = 2
    /\ LeftStaged(1)
    /\ proc[1].failed_at = "commit"
    /\ proc[1].raised = "OSError"
    /\ FileAt(proc[1].output_file) # Complete("a")

\* the canonical forms of the two path arguments of the call of p are equal
CanonicalEqual(p) == resolve(p.input_path) = resolve(p.output_path)

\* C16: when safe_output_path has handed out the write target, and nothing is
\* written yet: if the canonical source and destination differ, the target is
\* the destination and no file was created; if they are equal, the target is
\* a new empty file in the destination's directory, with the destination's
\* extension and a name no file there had, the destination's included.  A
\* call makes a temporary file only if its canonical paths are equal.
C16_TempFileIffSamePath ==
    \A i \in Procs :
        /\ (proc[i].tool \in ProducingTools /\ "mkstemp" \in proc[i].accesses)
           => CanonicalEqual(proc[i])
        /\ (proc[i].tool \in ProducingTools /\ proc[i].pc = "open")
           => IF CanonicalEqual(proc[i])
              THEN /\ proc[i].temp_path # NoPath
                   /\ proc[i].actual_output = proc[i].temp_path
                   /\ proc[i].actual_output \in DOMAIN dirent
                   /\ FileAt(proc[i].actual_output) = <<>>
                   /\ proc[i].actual_output.dir = resolve(proc[i].output_path).dir
                   /\ proc[i].actual_output.ext = resolve(proc[i].output_path).ext
                   /\ proc[i].actual_output \notin proc[i].names_before
                   /\ proc[i].actual_output # resolve(proc[i].output_path)
                   /\ DOMAIN dirent = proc[i].names_before \cup {proc[i].actual_output}
              ELSE /\ proc[i].temp_path = NoPath
                   /\ proc[i].actual_output = resolve(proc[i].output_path)
                   /\ DOMAIN dirent = proc[i].names_before
                   /\ "mkstemp" \notin proc[i].accesses

\* a call that reads the image and writes to the symbolic link to it was handed
\* a temporary file
C16_Witness ==
    \E i \in Procs :
        /\ proc[i].pc = "open"
        /\ proc[i].input_path = FileA
        /\ proc[i].output_path = LinkA
        /\ proc[i].actual_output \in DOMAIN dirent
        /\ IsTemp(proc[i].actual_output)

\* the call of p is under way or over, with a source and a destination whose
\* canonical forms differ
Distinct(p) ==
    /\ p.tool \in ProducingTools
    /\ p.input_file # NoPath
    /\ p.output_file # NoPath
    /\ ~CanonicalEqual(p)

\* C17 as stated: in a call whose canonical source and destination differ the
\* source holds at every moment the bytes it held before the call, and the
\* compressor is run on the write target only.
C17_SourceNeverModified ==
    \A i \in Procs :
        Distinct(proc[i]) =>
            /\ FileAt(proc[i].input_file) = proc[i].source_before
            /\ proc[i].compressor_ran_on \in {NoPath, proc[i].output_file}

\* C17 amended: the same, for a destination that is not another name (a hard
\* link) of the source file.
C17_SourceNotModifiedUnlessAliased ==
    \A i \in Procs :
        (Distinct(proc[i]) /\ ~proc[i].aliased) =>
            /\ FileAt(proc[i].input_file) = proc[i].source_before
            /\ proc[i].compressor_ran_on \in {NoPath, proc[i].output_file}
            /\ proc[i].compressor_ran_on # proc[i].input_file

\* compress_png has run the compressor, which rewrote the copy at a destination
\* other than the source, and has returned
C17_Witness ==
    \E i \in Procs :
        /\ Succeeded(i, "compress_png")
        /\ Distinct(proc[i])
        /\ proc[i].compressor_ran_on = FileM
        /\ proc[i].response.compressed
        /\ FileAt(FileM) # FileAt(proc[i].input_file)

====
